---- MODULE Spec2Model ----
(***************************************************************************)
(* Section extraction from a paginated PDF, as implemented by              *)
(*   src/extraction/pdf_extractor.py        (header scan strategy)         *)
(*   src/extraction/extract_sections_toc.py (outline / TOC strategy)       *)
(*                                                                         *)
(* One run of extract_all_sections or of extract_sections_by_toc is        *)
(* modelled as a sequential process; every call of the page renderer       *)
(* (pymupdf4llm.to_markdown) and every write of a section file is one      *)
(* step.  The renderer is an external collaborator: a request either       *)
(* returns one chunk per requested page ("ok"), returns nothing ("empty")  *)
(* or raises ("error").  Writing a file succeeds whenever the output       *)
(* directory exists.  Every page carries the same body text, a header page *)
(* a header line before it.  The same call may be made a second time on    *)
(* the files the first run left (action Rerun, specification SpecTwice).   *)
(***************************************************************************)
EXTENDS Integers, Sequences, FiniteSets, TLC

VARIABLES
    doc,              \* the PDF: [status, pages, markers, titles, toc, max_faults]
    args,             \* the call: [strategy, start_page, page_offset, toc_levels]
    pc,               \* position of the run
    total_pages,      \* total_pages local of the running function
    current_page,     \* scan: current_page / extract_next_section's start_page
    section_count,    \* scan: section_count
    section_end_page, \* scan: section_end_page of the step in progress
    next_section_start, \* scan: next_section_start of the step (0 = None)
    toc_sections,     \* toc: the planned sections (list `sections`)
    idx,              \* toc: index of the planned section in progress
    section,          \* the section fetched and not yet saved (<<>> = none)
    sections,         \* metadata records of the saved sections, in order
    created_files,    \* created_files list
    output_dir,       \* whether the output directory exists
    files,            \* output directory: artifact location -> what it holds
    summary_file,     \* the persisted summary (<<>> = not written)
    result,           \* what the run returned ([kind |-> "none"] = running)
    renders,          \* history: the renderer requests made so far
    faults,           \* history: how many of them did not return "ok"
    writes,           \* history: the calls of save_section_immediately so far
    run,              \* which run on this document and output directory (1 or 2)
    earlier           \* history: what the first run returned, left and requested

vars == << doc, args, pc, total_pages, current_page, section_count,
           section_end_page, next_section_start, toc_sections, idx, section,
           sections, created_files, output_dir, files, summary_file, result,
           renders, faults, writes, run, earlier >>

----------------------------------------------------------------------------
(* Program constants *)

\* look_ahead_pages default of extract_next_section
LookAheadPages == 20
\* width of the extended search window (section_end_page + 21, exclusive)
ExtendPages == 20
\* "if section_count > 100"
SafetyBound == 100

(* Bounds of the model *)

\* small documents (0..MaxSmallPages pages) carry any set of header pages
MaxSmallPages == 5
\* large documents have this many pages beyond the two search windows,
MaxTailPages == 2
\* and carry at most this many header pages
MaxMarkers == 1
\* documents with a header on every page: pages beyond SafetyBound + 1
MaxDenseExtra == 1
\* requested start pages 1..MaxStartPage
MaxStartPage == 2
\* renderer requests of one run that may fail or return nothing
MaxFaults == 2
\* outline: entries of a planned outline, entries of a run's outline,
\* pages of the document, magnitude of the page offset
MaxTocEntries == 3
MaxRunEntries == 2
MaxTocPages == 4
MaxOffset == 2
\* magnitude of the page offset of an outline run
MaxRunOffset == 1
MaxTitlePages == 3
MaxTitleEntries == 2
MaxTitleFaults == 1

\* outline levels that occur, and the --toc-levels values tried (None, [], [l])
Levels == {1, 2}
LevelFilters ==
    {[given |-> FALSE, levels |-> {}], [given |-> TRUE, levels |-> {}]}
        \cup {[given |-> TRUE, levels |-> {l}] : l \in Levels \cup {3}}

----------------------------------------------------------------------------
(* Helpers *)

Max(a, b) == IF a >= b THEN a ELSE b
\* (mutant) no cap: the first value is taken whatever the second is
Min_NoCap(a, b) == a
Min(a, b) == IF a <= b THEN a ELSE b

\* The renderer's possible answers to one request
Outcomes == {"ok", "empty", "error"}

None == << >>

\* find_section_header_in_text applied to the text of page p
HasHeader(p) == p \in doc.markers

\* (mutant) the first page searched is taken for a header page
FirstHeaderIn_Any(a, b) == IF a <= b THEN a ELSE 0

\* first page of a..b whose text holds a header, 0 when there is none
FirstHeaderIn(a, b) ==
    LET hs == {p \in a .. b : HasHeader(p)}
    IN  IF hs = {} THEN 0 ELSE CHOOSE p \in hs : \A q \in hs : p <= q

\* str.isspace for the characters that occur
IsSpace(c) == c = " " \/ c = "\n"

\* len(text.split()): the number of whitespace-delimited tokens
Words(text) ==
    Cardinality({i \in DOMAIN text :
                    ~IsSpace(text[i]) /\ (i = 1 \/ IsSpace(text[i - 1]))})

\* text.strip()
Strip(text) ==
    LET ns == {i \in DOMAIN text : ~IsSpace(text[i])}
    IN  IF ns = {} THEN << >>
        ELSE SubSeq(text, CHOOSE i \in ns : \A j \in ns : i <= j,
                          CHOOSE i \in ns : \A j \in ns : i >= j)

\* the decimal digits of a natural number, as str(n) gives them
RECURSIVE Digits(_)
Digits(n) ==
    LET d == << "0", "1", "2", "3", "4", "5", "6", "7", "8", "9" >>
    IN  IF n < 10 THEN << d[n + 1] >> ELSE Digits(n \div 10) \o << d[(n % 10) + 1] >>

\* str.lower for the letters that occur
Lower(c) ==
    CASE c = "A" -> "a" [] c = "B" -> "b" [] c = "T" -> "t" [] OTHER -> c

\* the characters re.sub(r'[^\w\s-]', '', ...) removes, among those that occur
IsPunctuation(c) == c = "!" \/ c = "#"

\* re.sub(r'\s+', '_', text): every run of whitespace becomes one underscore
RECURSIVE Underscored(_, _, _)
Underscored(text, k, out) ==
    IF k > Len(text) THEN out
    ELSE Underscored(text, k + 1,
                     IF ~IsSpace(text[k]) THEN Append(out, text[k])
                     ELSE IF k > 1 /\ IsSpace(text[k - 1]) THEN out
                     ELSE Append(out, "_"))

\* the normalisation both strategies apply to a title: characters other than
\* word characters, whitespace and hyphens removed, stripped, whitespace runs
\* replaced by an underscore, lower case
Slug(title) ==
    LET NotPunctuation(c) == ~IsPunctuation(c)
        Lowered(text) == [i \in DOMAIN text |-> Lower(text[i])]
    IN  CHOOSE section_id \in
            {Lowered(cleaned) :
                cleaned \in {Underscored(stripped, 1, << >>) :
                                stripped \in {Strip(SelectSeq(title, NotPunctuation))}}} : TRUE

\* the title of the header on page p or of outline entry p when the document
\* names each of them differently
DefaultTitle(p) == << "T" >> \o Digits(p)

\* the titles headers and outline entries are given: two that differ in
\* punctuation only, one that differs in case only, one unlike the others,
\* and one of which the slug keeps nothing
TitleChoices == {<< "A" >>, << "A", "!" >>, << "a" >>, << "B" >>, << "!" >>}

\* the titles that occur in the documents, and the slug of each: the table
\* of Slug over them
KnownTitles ==
    TitleChoices \cup
        {DefaultTitle(p) :
            p \in 1 .. Max(SafetyBound + 1 + MaxDenseExtra,
                           Max(LookAheadPages + ExtendPages + MaxTailPages,
                               Max(MaxSmallPages, Max(MaxTocEntries, MaxRunEntries))))}
Slugs == [title \in KnownTitles |-> Slug(title)]

\* header_title of a section that starts at page p
SectionTitle(p) ==
    IF HasHeader(p) THEN doc.titles[p]
    ELSE << "Content starting at Page " >> \o Digits(p)

\* (mutant) the id is always the synthesized one
SectionId_Synthesized(p) ==
    << "u", "n", "t", "i", "t", "l", "e", "d", "_", "p", "a", "g", "e", "_" >> \o Digits(p)

\* section_id of a section that starts at page p
SectionId(p) ==
    IF HasHeader(p) THEN Slugs[doc.titles[p]]
    ELSE << "u", "n", "t", "i", "t", "l", "e", "d", "_", "p", "a", "g", "e", "_" >>
             \o Digits(p)

\* Text is a sequence of characters.  The body every page carries, and the
\* line that find_section_header_in_text matches (r'^#{5}\s+(.+)$')
Body == << "a", " ", "b" >>
HeaderLine(title) == << "#", "#", "#", "#", "#", " " >> \o title \o << "\n" >>

\* page_data.get('text', '') of the chunk the renderer returns for page p
PageText(p) == IF HasHeader(p) THEN HeaderLine(doc.titles[p]) \o Body ELSE Body

\* scan: the loop that appends the text of the pages k..last to section_content
RECURSIVE CombinePages(_, _, _)
CombinePages(section_content, k, last) ==
    IF k > last THEN section_content
    ELSE LET appended == IF section_content # << >>
                         THEN section_content \o << "\n", "\n" >> \o PageText(k)
                         ELSE PageText(k)
         IN  CHOOSE text \in {CombinePages(c, k + 1, last) : c \in {appended}} : TRUE

\* scan: section_content of the pages first..last, joined by a blank line
ScanContent(first, last) == CombinePages(<< >>, first, last)

\* toc: combined_text of the pages first..last, a newline after each page
CombinedText(first, last) ==
    LET acc[k \in (first - 1) .. last] ==
            IF k = first - 1 THEN << >>
            ELSE acc[k - 1] \o PageText(k) \o << "\n" >>
    IN  acc[last]

\* toc: total_chars and total_words, summed page by page
TotalChars(first, last) ==
    LET acc[k \in (first - 1) .. last] ==
            IF k = first - 1 THEN 0 ELSE acc[k - 1] + Len(PageText(k))
    IN  acc[last]
TotalWords(first, last) ==
    LET acc[k \in (first - 1) .. last] ==
            IF k = first - 1 THEN 0 ELSE acc[k - 1] + Words(PageText(k))
    IN  acc[last]

\* get_pdf_page_count: 0 when the file cannot be opened
get_pdf_page_count == IF doc.status = "ok" THEN doc.pages ELSE 0

\* a renderer request as recorded in the history
Request(kind, first, last, outcome) ==
    [kind |-> kind, first |-> first, last |-> last, outcome |-> outcome,
     saved |-> Len(created_files), fetched |-> Len(created_files) + Len(section)]

\* what the renderer answered to the requests for the pages a..b in a history
Answers(history, a, b) ==
    {history[k].outcome : k \in {j \in DOMAIN history :
                                     history[j].first = a /\ history[j].last = b}}

\* the renderer answers a request: any outcome, failures within the budget;
\* a request for pages the document does not have never returns them; in a
\* second run the renderer answers a request as it answered it in the first
Renders(kind, first, last, o) ==
    /\ o \in Outcomes
    /\ IF last > doc.pages THEN o # "ok"
       ELSE o # "ok" => faults < doc.max_faults
    /\ run = 2 => (Answers(earlier[1].renders, first, last) # {}
                     => o \in Answers(earlier[1].renders, first, last))
    /\ renders' = Append(renders, Request(kind, first, last, o))
    /\ faults' = IF o = "ok" THEN faults ELSE faults + 1

----------------------------------------------------------------------------
(* Documents and calls *)

SubsetsUpTo(S, k) ==
    LET step[i \in 0 .. k] ==
            IF i = 0 THEN {{}}
            ELSE step[i - 1] \cup {s \cup {x} : s \in step[i - 1], x \in S}
    IN  step[k]

\* an outline with a title of its own for each entry
Titled(t) ==
    [k \in DOMAIN t |-> [level |-> t[k].level, page |-> t[k].page,
                         title |-> DefaultTitle(k)]]

\* a document of n pages with headers on the pages m, each with a title of
\* its own, the outline t and a renderer that fails at most f times
Pdf(n, m, t, f) ==
    [status |-> "ok", pages |-> n, markers |-> m,
     titles |-> [p \in m |-> DefaultTitle(p)], toc |-> Titled(t), max_faults |-> f]

SmallDocs ==
    UNION {{Pdf(n, m, << >>, MaxFaults) : m \in SUBSET (1 .. n)} : n \in 0 .. MaxSmallPages}

LargeDocs ==
    LET n == LookAheadPages + ExtendPages + MaxTailPages
    IN  {Pdf(n, m, << >>, MaxFaults) : m \in SubsetsUpTo(1 .. n, MaxMarkers)}

DenseDocs ==
    {Pdf(n, 1 .. n, << >>, 0) : n \in (SafetyBound + 1) .. (SafetyBound + 1 + MaxDenseExtra)}

BrokenDocs ==
    {[status |-> s, pages |-> 0, markers |-> {}, titles |-> << >>, toc |-> << >>,
      max_faults |-> 0] :
        s \in {"unreadable", "missing"}}

ScanCalls(starts) ==
    {[strategy |-> "scan", start_page |-> s, page_offset |-> 0,
      toc_levels |-> [given |-> FALSE, levels |-> {}]] : s \in starts}

\* outlines of len entries whose target pages lie in 1..n; the entries of a
\* document without pages have no page to point to (get_toc gives -1)
Outlines(n, len) ==
    [1 .. len -> [level : Levels, page : IF n = 0 THEN {-1} ELSE 1 .. n]]

\* the documents of n pages with an outline of len entries
TocDocs(n, len) == {Pdf(n, {}, t, MaxFaults) : t \in Outlines(n, len)}

\* documents of which the headers carry any of these titles
TitledScanDocs ==
    LET small == UNION {{<< n, m >> : m \in SUBSET (1 .. n)} : n \in 1 .. MaxTitlePages}
        large == {<< LookAheadPages + ExtendPages + 1, {1, LookAheadPages + 2} >>}
    IN  UNION {{[status |-> "ok", pages |-> d[1], markers |-> d[2], titles |-> t,
                 toc |-> << >>, max_faults |-> MaxTitleFaults] :
                   t \in [d[2] -> TitleChoices]} : d \in small \cup large}

\* documents of which the outline entries, all of level 1, carry any of
\* these titles
TitledOutlines(n, len) ==
    [1 .. len -> [level : {1}, page : 1 .. n, title : TitleChoices]]

TitledTocDocs(n, len) ==
    {[status |-> "ok", pages |-> n, markers |-> {}, titles |-> << >>,
      toc |-> t, max_faults |-> MaxTitleFaults] : t \in TitledOutlines(n, len)}

TocCalls(offsets) ==
    {[strategy |-> "toc", start_page |-> 1, page_offset |-> o, toc_levels |-> f] :
        o \in offsets, f \in LevelFilters}

----------------------------------------------------------------------------
(* Initial states *)

Idle ==
    /\ pc = "start"
    /\ total_pages = 0
    /\ current_page = 0
    /\ section_count = 0
    /\ section_end_page = 0
    /\ next_section_start = 0
    /\ toc_sections = << >>
    /\ idx = 0
    /\ section = None
    /\ sections = << >>
    /\ created_files = << >>
    /\ files = [loc \in {} |-> None]
    /\ summary_file = None
    /\ result = [kind |-> "none"]
    /\ renders = << >>
    /\ faults = 0
    /\ writes = << >>
    /\ run = 1
    /\ earlier = None

Init ==
    /\ \/ doc \in SmallDocs \cup BrokenDocs /\ args \in ScanCalls(1 .. MaxStartPage)
       \/ doc \in LargeDocs \cup DenseDocs /\ args \in ScanCalls({1})
       \/ /\ \/ \E n \in 0 .. MaxTocPages, len \in 0 .. MaxRunEntries : doc \in TocDocs(n, len)
             \/ doc \in BrokenDocs
          /\ args \in TocCalls((0 - MaxRunOffset) .. MaxRunOffset)
    /\ output_dir \in BOOLEAN
    /\ Idle

InitPlan ==
    /\ \E n \in 0 .. MaxTocPages, len \in 0 .. MaxTocEntries : doc \in TocDocs(n, len)
    /\ args \in TocCalls((0 - MaxOffset) .. MaxOffset)
    /\ output_dir = FALSE
    /\ Idle

InitTitles ==
    /\ \/ doc \in TitledScanDocs /\ args \in ScanCalls({1})
       \/ /\ \E n \in 1 .. MaxTitlePages, len \in 0 .. MaxTitleEntries :
                 doc \in TitledTocDocs(n, len)
          /\ args = [strategy |-> "toc", start_page |-> 1, page_offset |-> 0,
                     toc_levels |-> [given |-> FALSE, levels |-> {}]]
    /\ output_dir = FALSE
    /\ Idle

----------------------------------------------------------------------------
(* Scan strategy: pdf_extractor.py *)

\* (mutant) a file that exists is not replaced: the section gets a numbered name
SectionFile_Numbered(section_id) ==
    IF << "section", section_id >> \in DOMAIN files
    THEN << "section", section_id, Cardinality(DOMAIN files) >>
    ELSE << "section", section_id >>

\* where save_section_immediately puts the section with this id
SectionFile(section_id) == << "section", section_id >>

\* (mutant) a file that exists is left as it is
save_section_immediately_Keep(s) ==
    [loc \in DOMAIN files \cup {SectionFile(s.section_id)} |->
        IF loc \in DOMAIN files THEN files[loc] ELSE s]

\* save_section_immediately: open(section_file, 'w') replaces what was there
save_section_immediately(s) == [loc \in DOMAIN files \cup {SectionFile(s.section_id)} |->
                                   IF loc = SectionFile(s.section_id) THEN s ELSE files[loc]]

\* a call of the writer as recorded in the history: what it wrote, after which request
WriteCall(s) ==
    [file |-> SectionFile(s.section_id), start_page |-> s.start_page,
     end_page |-> s.end_page, after |-> Len(renders)]

\* (mutant) the loop leaves after the first saved section
ScanContinue_Once(count, page) == "summary"

\* the while condition and the safety check that follow a saved section
ScanContinue(count, page) ==
    IF count > SafetyBound THEN "summary"
    ELSE IF page <= total_pages THEN "scan" ELSE "summary"

\* (mutant) after a step that returned no section the loop tries the page again
ScanBreak_Retry == "scan"

\* "if section is None: break" leads to the summary
ScanBreak == "summary"

\* (mutant) the current section keeps the page of the next header
EndBefore_Inclusive(h) == h

\* a header on page h ends the current section on the page before it
EndBefore(h) == h - 1

\* (mutant) a section for which no next header was found ends where the search ended
Finalize_NoAbsorb(end, next) ==
    /\ section_end_page' = end
    /\ next_section_start' = IF next = 0 THEN end + 1 ELSE next
    /\ pc' = "fetch"

\* (mutant) a search that found no next header makes the step return no section
Finalize_Skip(end, next) ==
    IF next = 0
    THEN /\ pc' = ScanBreak
         /\ UNCHANGED << section_end_page, next_section_start >>
    ELSE /\ section_end_page' = end
         /\ next_section_start' = next
         /\ pc' = "fetch"

\* "if next_section_start is None": the section runs to the end of the document
Finalize(end, next) ==
    /\ section_end_page' = IF next = 0 THEN total_pages ELSE end
    /\ next_section_start' = IF next = 0 THEN total_pages + 1 ELSE next
    /\ pc' = "fetch"

\* extract_all_sections up to its loop
ScanStart ==
    /\ pc = "start"
    /\ args.strategy = "scan"
    /\ IF doc.status = "missing"
       THEN /\ result' = [kind |-> "raise", error |-> "FileNotFoundError"]
            /\ pc' = "done"
            /\ UNCHANGED << total_pages, current_page >>
       ELSE IF get_pdf_page_count = 0
       THEN /\ result' = [kind |-> "error", success |-> FALSE,
                          error |-> "Could not read PDF or PDF is empty"]
            /\ pc' = "done"
            /\ UNCHANGED << total_pages, current_page >>
       ELSE /\ total_pages' = get_pdf_page_count
            /\ current_page' = args.start_page
            /\ pc' = IF args.start_page <= get_pdf_page_count THEN "scan" ELSE "summary"
            /\ UNCHANGED result
    /\ UNCHANGED << run, earlier, doc, args, section_count, section_end_page, next_section_start,
                    toc_sections, idx, section, sections, created_files,
                    output_dir, files,
                    summary_file, renders, faults, writes >>

\* extract_next_section: the initial window
ScanWindow ==
    /\ pc = "scan"
    /\ LET start == current_page
           initial_batch_size == Min(LookAheadPages, total_pages - start + 1)
           last == start + initial_batch_size - 1
       IN  \E o \in Outcomes :
             /\ Renders("initial", start, last, o)
             /\ IF o # "ok"
                THEN \* return None, start_page + 1; the caller breaks
                     /\ pc' = ScanBreak
                     /\ UNCHANGED << section_end_page, next_section_start >>
                ELSE LET h == FirstHeaderIn(start + 1, last)
                         end == IF h # 0 THEN EndBefore(h) ELSE last
                     IN  IF h = 0 /\ end = start + initial_batch_size - 1
                                  /\ end < total_pages
                         THEN /\ section_end_page' = end
                              /\ next_section_start' = 0
                              /\ pc' = "extend"
                         ELSE Finalize(end, h)
    /\ UNCHANGED << run, earlier, doc, args, total_pages, current_page, section_count, toc_sections,
                    idx, section, sections, created_files, output_dir, files,
                    summary_file, result, writes >>

\* extract_next_section: the extended search
ScanExtend ==
    /\ pc = "extend"
    /\ LET first == section_end_page + 1
           last == Min(total_pages + 1, section_end_page + ExtendPages + 1) - 1
       IN  \E o \in Outcomes :
             /\ Renders("extend", first, last, o)
             /\ IF o = "ok"
                THEN LET h == FirstHeaderIn(first, last)
                     IN  Finalize(IF h # 0 THEN EndBefore(h) ELSE last, h)
                ELSE \* nothing to iterate over, or the warning of the inner except
                     Finalize(section_end_page, 0)
    /\ UNCHANGED << run, earlier, doc, args, total_pages, current_page, section_count, toc_sections,
                    idx, section, sections, created_files, output_dir, files,
                    summary_file, result, writes >>

\* extract_next_section: the fetch of the complete section
ScanFetch ==
    /\ pc = "fetch"
    /\ \E o \in Outcomes :
         /\ Renders("final", current_page, section_end_page, o)
         /\ IF o = "error"
            THEN /\ pc' = ScanBreak
                 /\ UNCHANGED section
            ELSE \E section_content \in
                        {IF o = "ok" THEN ScanContent(current_page, section_end_page)
                                     ELSE << >>} :
                   /\ section' = << [section_id |-> SectionId(current_page),
                                     section_title |-> SectionTitle(current_page),
                                     start_page |-> current_page,
                                     end_page |-> section_end_page,
                                     pages |-> current_page .. section_end_page,
                                     content |-> section_content,
                                     character_count |-> Len(section_content),
                                     word_count |-> Words(section_content),
                                     header_found |-> HasHeader(current_page)] >>
                   /\ pc' = "save"
    /\ UNCHANGED << run, earlier, doc, args, total_pages, current_page, section_count, section_end_page,
                    next_section_start, toc_sections, idx, sections, created_files,
                    output_dir, files, summary_file, result, writes >>

\* extract_all_sections: the loop body after extract_next_section returned a section
ScanSave ==
    /\ pc = "save"
    /\ args.strategy = "scan"
    /\ LET s == section[1]
       IN  /\ files' = save_section_immediately(s)
           /\ output_dir' = TRUE
           /\ writes' = Append(writes, WriteCall(s))
           /\ created_files' = Append(created_files, SectionFile(s.section_id))
           /\ sections' = Append(sections,
                  [title |-> s.section_title, id |-> s.section_id,
                   start_page |-> s.start_page, end_page |-> s.end_page,
                   character_count |-> s.character_count,
                   word_count |-> s.word_count,
                   file_path |-> SectionFile(s.section_id)])
    /\ section' = None
    /\ current_page' = next_section_start
    /\ section_count' = section_count + 1
    /\ pc' = ScanContinue(section_count + 1, next_section_start)
    /\ UNCHANGED << run, earlier, doc, args, total_pages, section_end_page, next_section_start,
                    toc_sections, idx, summary_file, result, renders, faults >>

\* extract_all_sections: the summary
ScanSummary ==
    /\ pc = "summary"
    /\ args.strategy = "scan"
    /\ LET summary(listed) ==
               [success |-> TRUE, total_pages |-> total_pages,
                start_page |-> args.start_page, sections_found |-> Len(sections),
                sections |-> sections, files_created |-> listed]
       IN  IF output_dir
           THEN /\ summary_file' = << summary(created_files) >>
                \* the returned dict shares created_files, which has grown by then
                /\ result' = [kind |-> "summary",
                              value |-> summary(Append(created_files, << "summary" >>))]
                /\ created_files' = Append(created_files, << "summary" >>)
           ELSE \* open(summary_file, 'w') raises: no section was saved, so nothing
                \* has created the directory; the outer except returns the error
                /\ result' = [kind |-> "error", success |-> FALSE,
                              error |-> "No such file or directory",
                              sections_processed |-> Len(sections)]
                /\ UNCHANGED << summary_file, created_files >>
    /\ pc' = "done"
    /\ UNCHANGED << run, earlier, doc, args, total_pages, current_page, section_count, section_end_page,
                    next_section_start, toc_sections, idx, section, sections,
                    output_dir, files, renders, faults, writes >>

----------------------------------------------------------------------------
(* Outline strategy: extract_sections_toc.py *)

\* generate_section_id: the slug of the title, prefixed when it starts with a
\* digit, "untitled_section" when nothing is left of the title
generate_section_id(title) ==
    LET Prefixed(section_id) ==
            IF section_id = << >>
            THEN << "u", "n", "t", "i", "t", "l", "e", "d", "_",
                    "s", "e", "c", "t", "i", "o", "n" >>
            ELSE IF section_id[1] \in {"0", "1", "2", "3", "4", "5", "6", "7", "8", "9"}
            THEN << "s", "e", "c", "t", "i", "o", "n", "_" >> \o section_id
            ELSE section_id
    IN  CHOOSE id \in {Prefixed(section_id) : section_id \in {Slug(title)}} : TRUE

\* title.strip() and generate_section_id(title), as tables over the titles that occur
Stripped == [title \in KnownTitles |-> Strip(title)]
SectionIds == [title \in KnownTitles |-> generate_section_id(title)]

\* get_pdf_toc_and_pages: the outline as entries, empty when the file cannot be opened
get_pdf_toc ==
    IF doc.status = "ok"
    THEN [k \in 1 .. Len(doc.toc) |->
             [level |-> doc.toc[k].level, title |-> Stripped[doc.toc[k].title],
              page |-> doc.toc[k].page,
              section_id |-> SectionIds[doc.toc[k].title]]]
    ELSE << >>

\* (mutant) the level filter is ignored
FilterLevels_None(toc_entries, toc_levels) == toc_entries

\* (mutant) an empty list of levels keeps no entry
FilterLevels_Strict(toc_entries, toc_levels) ==
    IF toc_levels.given
    THEN LET Keep(e) == e.level \in toc_levels.levels
         IN  SelectSeq(toc_entries, Keep)
    ELSE toc_entries

\* "if toc_levels:" keeps the entries whose level is listed
FilterLevels(toc_entries, toc_levels) ==
    IF toc_levels.given /\ toc_levels.levels # {}
    THEN LET Keep(e) == e.level \in toc_levels.levels
         IN  SelectSeq(toc_entries, Keep)
    ELSE toc_entries

\* (mutant) an empty outline is planned like any other
NoToc_Unchecked(toc_entries) == FALSE

\* "if not toc_entries": the document has no outline
NoToc(toc_entries) == toc_entries = << >>

\* (mutant) a section is saved whatever the renderer answered
Extracted_Always(o) == TRUE

\* "if not result: return None" and "if section_content:": only a request that
\* returned pages yields a section
Extracted(o) == o = "ok"

\* (mutant) every entry starts on the first page
ClampStart_First(page, total, page_offset) == 1

\* (mutant) start_page is limited by total_pages only
ClampStart_NoFloor(page, total, page_offset) == Min(page + page_offset, total)

\* start_page of an entry: max(1, min(page + page_offset, total_pages))
ClampStart(page, total, page_offset) == Max(1, Min(page + page_offset, total))

\* (mutant) end_page is limited by total_pages only
ClampEnd_NoFloor(start, end, total) == Min(end, total)

\* end_page of an entry: max(start_page, min(end_page, total_pages))
ClampEnd(start, end, total) == Max(start, Min(end, total))

\* (mutant) the page offset is not applied to the next entry's page
RawEnd_NoOffset(toc_entries, i, total, page_offset) ==
    IF i + 1 <= Len(toc_entries) THEN toc_entries[i + 1].page - 1 ELSE total

\* (mutant) the section runs up to the next entry's page inclusive
RawEnd_Inclusive(toc_entries, i, total, page_offset) ==
    IF i + 1 <= Len(toc_entries) THEN toc_entries[i + 1].page + page_offset ELSE total

\* end_page before clamping: the page before the next entry, or the last page
RawEnd(toc_entries, i, total, page_offset) ==
    IF i + 1 <= Len(toc_entries)
    THEN toc_entries[i + 1].page + page_offset - 1
    ELSE total

calculate_section_boundaries(toc_entries, total, page_offset) ==
    [i \in 1 .. Len(toc_entries) |->
        LET entry == toc_entries[i]
            start_page == ClampStart(entry.page, total, page_offset)
            end_page == ClampEnd(start_page, RawEnd(toc_entries, i, total, page_offset), total)
        IN  [level |-> entry.level, title |-> entry.title, page |-> entry.page,
             section_id |-> entry.section_id, start_page |-> start_page,
             end_page |-> end_page, page_count |-> end_page - start_page + 1]]

\* (mutant) the loop ends after the first planned section
TocContinue_Stop(i) == "summary"

\* the for loop over the planned sections: the next one, or the summary
TocContinue(i) == IF i <= Len(toc_sections) THEN "extract" ELSE "summary"

\* extract_sections_by_toc up to its loop
TocStart ==
    /\ pc = "start"
    /\ args.strategy = "toc"
    /\ IF doc.status = "missing"
       THEN /\ result' = [kind |-> "raise", error |-> "FileNotFoundError"]
            /\ pc' = "done"
            /\ UNCHANGED << total_pages, toc_sections, idx, output_dir >>
       ELSE LET toc_entries == get_pdf_toc
                plan == calculate_section_boundaries(
                            FilterLevels(toc_entries, args.toc_levels),
                            doc.pages, args.page_offset)
            IN  IF NoToc(toc_entries)
                THEN /\ result' = [kind |-> "error", error |-> "No TOC found",
                                   sections_extracted |-> 0]
                     /\ pc' = "done"
                     /\ UNCHANGED << total_pages, toc_sections, idx, output_dir >>
                ELSE /\ total_pages' = doc.pages
                     /\ toc_sections' = plan
                     /\ idx' = 1
                     \* Path(output_dir).mkdir(exist_ok=True)
                     /\ output_dir' = TRUE
                     /\ pc' = IF plan = << >> THEN "summary" ELSE "extract"
                     /\ UNCHANGED result
    /\ UNCHANGED << run, earlier, doc, args, current_page, section_count, section_end_page,
                    next_section_start, section, sections, created_files, files,
                    summary_file, renders, faults, writes >>

\* extract_section_content for the planned section idx
TocExtract ==
    /\ pc = "extract"
    /\ LET planned == toc_sections[idx]
       IN  \E o \in Outcomes :
             /\ Renders("range", planned.start_page, planned.end_page, o)
             /\ IF Extracted(o)
                THEN \E combined_text \in {CombinedText(planned.start_page,
                                                        planned.end_page)} :
                       /\ section' = << [title |-> planned.title,
                                         section_id |-> planned.section_id,
                                         level |-> planned.level,
                                         start_page |-> planned.start_page,
                                         end_page |-> planned.end_page,
                                         page_count |-> planned.page_count,
                                         text |-> Strip(combined_text),
                                         character_count |->
                                             TotalChars(planned.start_page, planned.end_page),
                                         word_count |->
                                             TotalWords(planned.start_page, planned.end_page)] >>
                       /\ pc' = "save"
                       /\ UNCHANGED idx
                ELSE \* returns None: "Skipped: No content extracted"
                     /\ idx' = idx + 1
                     /\ pc' = TocContinue(idx + 1)
                     /\ UNCHANGED section
    /\ UNCHANGED << run, earlier, doc, args, total_pages, current_page, section_count, section_end_page,
                    next_section_start, toc_sections, sections, created_files,
                    output_dir, files,
                    summary_file, result, writes >>

\* extract_sections_by_toc: the loop body for a section that was extracted
TocSave ==
    /\ pc = "save"
    /\ args.strategy = "toc"
    /\ LET s == section[1]
       IN  /\ files' = save_section_immediately(s)
           /\ output_dir' = TRUE
           /\ writes' = Append(writes, WriteCall(s))
           /\ created_files' = Append(created_files, SectionFile(s.section_id))
           /\ sections' = Append(sections,
                  [title |-> s.title, id |-> s.section_id,
                   start_page |-> s.start_page, end_page |-> s.end_page,
                   character_count |-> s.character_count,
                   word_count |-> s.word_count,
                   file_path |-> SectionFile(s.section_id), toc_level |-> s.level])
    /\ section' = None
    /\ idx' = idx + 1
    /\ pc' = TocContinue(idx + 1)
    /\ UNCHANGED << run, earlier, doc, args, total_pages, current_page, section_count, section_end_page,
                    next_section_start, toc_sections, summary_file, result, renders,
                    faults >>

\* extract_sections_by_toc: the summary
TocSummary ==
    /\ pc = "summary"
    /\ args.strategy = "toc"
    /\ LET summary ==
               [success |-> TRUE, extraction_method |-> "toc_based_memory_efficient",
                total_pages |-> total_pages, sections_found |-> Len(sections),
                page_offset_applied |-> args.page_offset,
                toc_levels_filtered |-> args.toc_levels,
                toc_entries_found |-> Len(toc_sections),
                created_files |-> created_files, sections |-> sections]
       IN  /\ summary_file' = << summary >>
           /\ result' = [kind |-> "summary", value |-> summary]
    /\ pc' = "done"
    /\ UNCHANGED << run, earlier, doc, args, total_pages, current_page, section_count, section_end_page,
                    next_section_start, toc_sections, idx, section, sections,
                    created_files, output_dir, files, renders, faults, writes >>

----------------------------------------------------------------------------
(* A second run *)

\* the same call is made again, on the same document and output directory:
\* the files of the first run are still there, everything else starts afresh
Rerun ==
    /\ pc = "done"
    /\ run = 1
    /\ run' = 2
    /\ earlier' = << [result |-> result, summary_file |-> summary_file,
                      files |-> files, renders |-> renders] >>
    /\ pc' = "start"
    /\ total_pages' = 0
    /\ current_page' = 0
    /\ section_count' = 0
    /\ section_end_page' = 0
    /\ next_section_start' = 0
    /\ toc_sections' = << >>
    /\ idx' = 0
    /\ section' = None
    /\ sections' = << >>
    /\ created_files' = << >>
    /\ result' = [kind |-> "none"]
    /\ renders' = << >>
    /\ faults' = 0
    /\ writes' = << >>
    /\ UNCHANGED << doc, args, output_dir, files, summary_file >>

----------------------------------------------------------------------------
(* Specifications *)

Next ==
    \/ ScanStart \/ ScanWindow \/ ScanExtend \/ ScanFetch \/ ScanSave \/ ScanSummary
    \/ TocStart \/ TocExtract \/ TocSave \/ TocSummary

\* runs of either strategy
Spec == Init /\ [][Next]_vars

\* a run is a sequential program: it takes its next step as long as it has one
FairSpec == Spec /\ WF_vars(Next)

\* runs on documents whose titles may coincide or have the same slug
SpecTitles == InitTitles /\ [][Next]_vars

\* runs of the scan strategy, which takes its next step as long as it has one
InitScan == Init /\ args.strategy = "scan"

NextScan ==
    \/ ScanStart \/ ScanWindow \/ ScanExtend \/ ScanFetch \/ ScanSave \/ ScanSummary

FairScan == InitScan /\ [][NextScan]_vars /\ WF_vars(NextScan)

\* two runs in a row of the same call
InitTwice ==
    /\ \/ doc \in SmallDocs /\ args \in ScanCalls(1 .. MaxStartPage)
       \/ doc \in LargeDocs /\ args \in ScanCalls({1})
       \/ /\ \E n \in 0 .. MaxTocPages, len \in 0 .. MaxRunEntries : doc \in TocDocs(n, len)
          /\ args \in TocCalls({0})
    /\ output_dir \in BOOLEAN
    /\ Idle

NextTwice == Next \/ Rerun

SpecTwice == InitTwice /\ [][NextTwice]_vars

\* the planning of an outline alone, over a wider family of outlines and offsets
SpecPlan == InitPlan /\ [][TocStart]_vars

----------------------------------------------------------------------------
(* Properties *)

IsScan == args.strategy = "scan"
IsToc == args.strategy = "toc"

\* the run has returned
Done == pc = "done"

\* the pages of a saved or planned section
Pages(s) == s.start_page .. s.end_page

\* the outline has been planned (the run is past TocStart with a plan)
Planned == IsToc /\ pc \in {"extract", "save", "summary"}

\* the target page of a planned entry after the offset
Target(s) == s.page + args.page_offset

\* C1: in a scan run the first section starts at the requested start page and
\* every later section starts one page after the end of the section before it,
\* so the sections are contiguous and pairwise disjoint.
C1_ScanContiguous ==
    IsScan =>
        /\ sections # << >> => sections[1].start_page = args.start_page
        /\ \A k \in 2 .. Len(sections) :
               sections[k].start_page = sections[k - 1].end_page + 1
        /\ \A j, k \in DOMAIN sections :
               j # k => Pages(sections[j]) \cap Pages(sections[k]) = {}
        /\ sections # << >> =>
               UNION {Pages(sections[k]) : k \in DOMAIN sections}
                   = args.start_page .. sections[Len(sections)].end_page

\* a finished scan run of two sections or more, the second of which was found
\* by the extended search and was itself searched for in two windows
C1_Witness ==
    /\ IsScan /\ Done
    /\ Len(sections) >= 2
    /\ \E j, k \in DOMAIN renders :
           /\ j < k
           /\ renders[j].kind = "extend" /\ renders[j].outcome = "ok"
           /\ renders[j].saved = 0
           /\ renders[k].kind = "extend"
           /\ renders[k].saved = 1

\* C2: after the renderer failed on the window that starts at page p, the scan
\* goes on with the window that starts at page p + 1.
C2_ResumesAfterFailure ==
    (IsScan /\ Done) =>
        \A k \in DOMAIN renders :
            (/\ renders[k].kind = "initial"
             /\ renders[k].outcome = "error"
             /\ renders[k].first < total_pages)
            => \E j \in DOMAIN renders :
                   /\ j > k
                   /\ renders[j].kind = "initial"
                   /\ renders[j].first = renders[k].first + 1

\* C3: a scan run never produces more sections than the safety bound.
C3_AtMostSafetyBound ==
    IsScan => /\ Len(sections) <= SafetyBound
              /\ Len(writes) <= SafetyBound

\* the pages covered by the plan, and the smallest planned start page
Covered == UNION {Pages(toc_sections[i]) : i \in DOMAIN toc_sections}
FirstStart ==
    CHOOSE p \in {toc_sections[i].start_page : i \in DOMAIN toc_sections} :
        \A i \in DOMAIN toc_sections : p <= toc_sections[i].start_page

\* C4 as claimed: the planned ranges of a document that has pages cover
\* exactly the pages 1..total_pages.
C4_CoversWholeDocument ==
    (Planned /\ toc_sections # << >> /\ total_pages >= 1) => Covered = 1 .. total_pages

\* C4 as amended: for a document of at least one page the planned ranges
\* cover, without a gap, the pages from the smallest planned start page to
\* total_pages; two consecutive ranges share a page only when one of them is
\* a single page.
C4_CoversFromFirstStart ==
    (Planned /\ toc_sections # << >> /\ total_pages >= 1) =>
        /\ Covered = FirstStart .. total_pages
        /\ \A i \in 1 .. Len(toc_sections) - 1 :
               Pages(toc_sections[i]) \cap Pages(toc_sections[i + 1]) # {}
               => \/ toc_sections[i].start_page = toc_sections[i].end_page
                  \/ toc_sections[i + 1].start_page = toc_sections[i + 1].end_page

\* a plan of three entries that starts after page 1 and has an out-of-order entry
C4_Witness ==
    /\ Planned
    /\ Len(toc_sections) = 3
    /\ FirstStart > 1
    /\ args.page_offset # 0
    /\ Target(toc_sections[2]) < Target(toc_sections[1])
    /\ Pages(toc_sections[1]) \cap Pages(toc_sections[2]) # {}

\* C5: every planned section has start_page <= end_page.
C5_StartNotAfterEnd ==
    Planned => \A i \in DOMAIN toc_sections :
                   toc_sections[i].start_page <= toc_sections[i].end_page

\* a plan with a negative offset in which one entry's target lies below page 1
\* and the entry after another lies before that entry's own start
C5_Witness ==
    /\ Planned
    /\ args.page_offset < 0
    /\ \E i \in DOMAIN toc_sections : Target(toc_sections[i]) < 1
    /\ \E i \in 1 .. Len(toc_sections) - 1 :
           /\ Target(toc_sections[i + 1]) - 1 < toc_sections[i].start_page
           /\ toc_sections[i].start_page > 1

\* the targets of the plan are strictly increasing and lie in 1..total_pages
InOrder ==
    /\ \A i \in DOMAIN toc_sections :
           Target(toc_sections[i]) >= 1 /\ Target(toc_sections[i]) <= total_pages
    /\ \A i \in 1 .. Len(toc_sections) - 1 :
           Target(toc_sections[i]) < Target(toc_sections[i + 1])

\* C6: for targets that are strictly increasing within 1..total_pages, entry i
\* spans [p_i, p_(i+1) - 1] and the last entry spans [p_n, total_pages].
C6_InOrderRanges ==
    (Planned /\ InOrder) =>
        \A i \in DOMAIN toc_sections :
            /\ toc_sections[i].start_page = Target(toc_sections[i])
            /\ toc_sections[i].end_page =
                   IF i < Len(toc_sections)
                   THEN Target(toc_sections[i + 1]) - 1
                   ELSE total_pages
            /\ i < Len(toc_sections) =>
                   toc_sections[i + 1].start_page = toc_sections[i].end_page + 1

\* an in-order plan of three entries under a page offset, the first of several pages
C6_Witness ==
    /\ Planned /\ InOrder
    /\ Len(toc_sections) = 3
    /\ args.page_offset # 0
    /\ \E i \in DOMAIN toc_sections : toc_sections[i].page_count > 1

\* the run has produced a manifest: returned it and persisted it
HasManifest == result.kind = "summary" /\ summary_file # None

\* the document can be opened and has at least one page
Readable == doc.status = "ok" /\ doc.pages >= 1

C8_AlwaysManifest ==
    (Readable /\ (IsToc => doc.toc # << >>)) =>
        /\ Done \/ ENABLED Next
        /\ Done => HasManifest

\* the non-fatal error notes of a manifest (none when it has no such field)
ManifestErrors(m) == IF "errors" \in DOMAIN m THEN m.errors ELSE << >>

\* C9: when a renderer request of the run failed or returned nothing, the
\* manifest of the run holds an error note.
C9_FailuresAreNoted ==
    (Done /\ HasManifest /\ faults > 0) =>
        /\ ManifestErrors(result.value) # << >>
        /\ ManifestErrors(summary_file[1]) # << >>

\* the renderer requests that delivered a section to the caller
Delivered ==
    {k \in DOMAIN renders :
        \/ renders[k].kind = "final" /\ renders[k].outcome # "error"
        \/ renders[k].kind = "range" /\ renders[k].outcome = "ok"}

\* C10: the writer is called once for each delivered section, with its page
\* range, in the order of delivery, and before the next renderer request.
C10_WrittenOnceBeforeNext ==
    /\ \A j \in DOMAIN writes :
           /\ writes[j].after \in Delivered
           /\ writes[j].start_page = renders[writes[j].after].first
           /\ writes[j].end_page = renders[writes[j].after].last
           /\ j > 1 => writes[j - 1].after < writes[j].after
    /\ \A k \in Delivered :
           \/ \E j \in DOMAIN writes : writes[j].after = k
           \/ k = Len(renders) /\ pc = "save"
    /\ \A k \in DOMAIN renders : renders[k].saved = renders[k].fetched

\* finished runs in which three sections were written and a request failed
C10_Witness ==
    /\ Done
    /\ Len(writes) >= 3
    /\ faults > 0

\* the text save_section_immediately wrote after the header block of an artifact
WrittenText(s) == IF "content" \in DOMAIN s THEN s.content ELSE s.text

\* C11: the character count recorded in a written artifact is the length of
\* the text written to it and the word count is the number of its
\* whitespace-delimited tokens; the manifest records carry the same counts.
C11_CountsMatchText ==
    /\ \A loc \in DOMAIN files :
           /\ files[loc].character_count = Len(WrittenText(files[loc]))
           /\ files[loc].word_count = Words(WrittenText(files[loc]))
    /\ \A k \in DOMAIN sections :
           /\ sections[k].character_count = Len(WrittenText(files[sections[k].file_path]))
           /\ sections[k].word_count = Words(WrittenText(files[sections[k].file_path]))

\* no page after page p carries a header
NoHeaderAfter(p) == \A q \in (p + 1) .. doc.pages : ~HasHeader(q)

\* C12: when no page after the start page of a scan step carries a header, the
\* step yields the one section [start, total_pages] and the next start
\* total_pages + 1, and the run ends with that section.
C12_NoMarkerOneSection ==
    IsScan =>
        /\ (pc \in {"fetch", "save"} /\ NoHeaderAfter(current_page)) =>
               /\ section_end_page = total_pages
               /\ next_section_start = total_pages + 1
        /\ (pc = "save" /\ NoHeaderAfter(current_page)) =>
               /\ section[1].start_page = current_page
               /\ section[1].end_page = total_pages
               /\ ScanContinue(section_count + 1, next_section_start) = "summary"
        /\ (/\ Done /\ Readable /\ NoHeaderAfter(args.start_page)
            /\ args.start_page <= doc.pages
            /\ \A k \in DOMAIN renders : renders[k].kind = "extend" \/ renders[k].outcome = "ok")
           => /\ Len(sections) = 1
              /\ sections[1].start_page = args.start_page
              /\ sections[1].end_page = total_pages

\* a finished scan of a document longer than both search windows, without a
\* header after page 1, in which the extended search was made
C12_Witness ==
    /\ IsScan /\ Done
    /\ total_pages > LookAheadPages + ExtendPages
    /\ NoHeaderAfter(args.start_page)
    /\ Len(sections) = 1
    /\ \E k \in DOMAIN renders : renders[k].kind = "extend" /\ renders[k].outcome = "ok"

\* the records of the manifest are those of some planned entries, in plan order
InPlanOrder ==
    \E f \in [DOMAIN sections -> DOMAIN toc_sections] :
        /\ \A j, k \in DOMAIN sections : j < k => f[j] < f[k]
        /\ \A k \in DOMAIN sections :
               /\ sections[k].id = toc_sections[f[k]].section_id
               /\ sections[k].start_page = toc_sections[f[k]].start_page
               /\ sections[k].end_page = toc_sections[f[k]].end_page

\* the targets of the plan never decrease
NonDecreasing ==
    \A i \in 1 .. Len(toc_sections) - 1 :
        Target(toc_sections[i]) <= Target(toc_sections[i + 1])

\* C13 as claimed: in the manifest of a completed run each record's
\* start_page is greater than that of the record before it.
C13_OrderedByStartPage ==
    (Done /\ HasManifest) =>
        \A k \in 2 .. Len(sections) :
            sections[k].start_page > sections[k - 1].start_page

\* C13 as amended: the records of a scan run have strictly increasing start
\* pages; the records of an outline run are in the order of the outline, so
\* their start pages never decrease when the target pages never decrease and
\* strictly increase when the target pages do so within the document.
C13_OrderedAsDiscovered ==
    /\ IsScan =>
           \A k \in 2 .. Len(sections) :
               sections[k].start_page > sections[k - 1].start_page
    /\ (IsToc /\ pc # "start") =>
           /\ InPlanOrder
           /\ NonDecreasing =>
                  \A k \in 2 .. Len(sections) :
                      sections[k].start_page >= sections[k - 1].start_page
           /\ InOrder =>
                  \A k \in 2 .. Len(sections) :
                      sections[k].start_page > sections[k - 1].start_page

\* a finished outline run whose manifest lists a section after one that starts
\* on a later page
C13_Witness ==
    /\ IsToc /\ Done /\ HasManifest
    /\ Len(sections) = 2
    /\ sections[2].start_page < sections[1].start_page

\* the manifest m lists the planned section p
Listed(m, p) ==
    \E k \in DOMAIN m.sections :
        /\ m.sections[k].id = p.section_id
        /\ m.sections[k].start_page = p.start_page
        /\ m.sections[k].end_page = p.end_page
        /\ m.sections[k].file_path \in DOMAIN files

\* C14: in an outline run the k-th renderer request is for the k-th planned
\* range, whatever the earlier requests returned; the run goes on until every
\* planned range has been requested once, and every range whose request
\* returned pages is written and listed in the manifest.
C14_EveryRangeRequested ==
    (IsToc /\ pc # "start" /\ result.kind \in {"none", "summary"}) =>
        /\ Len(renders) <= Len(toc_sections)
        /\ \A k \in DOMAIN renders :
               /\ renders[k].kind = "range"
               /\ renders[k].first = toc_sections[k].start_page
               /\ renders[k].last = toc_sections[k].end_page
        /\ ~Done => ENABLED Next
        /\ pc \in {"summary", "done"} => Len(renders) = Len(toc_sections)
        /\ Done =>
               /\ HasManifest
               /\ \A k \in DOMAIN renders :
                      renders[k].outcome = "ok" =>
                          /\ Listed(result.value, toc_sections[k])
                          /\ Listed(summary_file[1], toc_sections[k])
                          /\ \E j \in DOMAIN writes : writes[j].after = k
               /\ Len(sections) =
                      Cardinality({k \in DOMAIN renders : renders[k].outcome = "ok"})

\* a finished outline run whose first request failed and whose second
\* request returned pages
C14_Witness ==
    /\ IsToc /\ Done /\ HasManifest
    /\ Len(renders) = 2
    /\ renders[1].outcome = "error"
    /\ renders[2].outcome = "ok"
    /\ Listed(result.value, toc_sections[2])

\* the warning notes of a manifest (none when it has no such field)
ManifestWarnings(m) == IF "warnings" \in DOMAIN m THEN m.warnings ELSE << >>

\* the loop of the scan was left by the safety check
SafetyStop == IsScan /\ Done /\ section_count > SafetyBound

\* C15: a scan run stopped by the safety bound ends with a manifest, not with
\* an error result, and that manifest holds a warning note.
C15_SafetyStopIsNoted ==
    SafetyStop =>
        /\ HasManifest
        /\ result.value.success
        /\ ManifestWarnings(result.value) # << >>
        /\ ManifestWarnings(summary_file[1]) # << >>

\* C16: a run on a document that cannot be read or that has no pages ends
\* with an error result: no renderer request is made, no section file is
\* written and no manifest is produced.
C16_UnreadableFails ==
    (~Readable /\ pc # "start") =>
        /\ Done
        /\ result.kind \in {"error", "raise"}
        /\ result.kind = "error" => "error" \in DOMAIN result
        /\ renders = << >>
        /\ writes = << >>
        /\ DOMAIN files = {}
        /\ created_files = << >>
        /\ summary_file = None

\* the renderer answered equal requests equally
Deterministic(history) ==
    \A j, k \in DOMAIN history :
        (history[j].first = history[k].first /\ history[j].last = history[k].last)
        => history[j].outcome = history[k].outcome

\* C17: with a renderer that answers equal requests equally, a second run of
\* the same call on the same document returns what the first run returned and
\* leaves the same persisted manifest and the same section files, although it
\* writes over the files of the first run.
C17_SecondRunSameManifest ==
    (run = 2 /\ Done /\ Deterministic(earlier[1].renders)) =>
        /\ result = earlier[1].result
        /\ summary_file = earlier[1].summary_file
        /\ files = earlier[1].files
        /\ Len(renders) = Len(earlier[1].renders)
        /\ \A k \in DOMAIN writes : writes[k].file \in DOMAIN earlier[1].files

\* a finished second run that wrote two sections over those of the first run
\* and met a request the renderer fails on
C17_Witness ==
    /\ run = 2 /\ Done /\ Deterministic(earlier[1].renders)
    /\ HasManifest
    /\ Len(writes) >= 2
    /\ faults > 0

\* the successful requests of the scan step in progress, whose results the
\* locals result and extended_result of extract_next_section still hold
StepResults ==
    {k \in DOMAIN renders :
        renders[k].saved = Len(created_files) /\ renders[k].outcome = "ok"}

\* the number of rendered pages held: by the locals of the step in progress,
\* or by the section handed to the caller and not yet saved
ResidentPages ==
    LET acc[k \in 0 .. Len(renders)] ==
            IF k = 0 THEN 0
            ELSE acc[k - 1] + (IF k \in StepResults
                               THEN renders[k].last - renders[k].first + 1
                               ELSE 0)
    IN  IF pc \in {"extend", "fetch"} THEN acc[Len(renders)]
        ELSE IF pc = "save" THEN Cardinality(section[1].pages)
        ELSE 0

\* C18: in a scan run every renderer request, the final fetch of a section
\* included, covers at most one look-ahead window of pages, and never more
\* than one window of rendered pages is held.
C18_OneWindowResident ==
    IsScan =>
        /\ \A k \in DOMAIN renders :
               renders[k].last - renders[k].first + 1 <= LookAheadPages
        /\ ResidentPages <= LookAheadPages

\* C19: a section that a scan step produces from page s ends on the page
\* before the first header page after s, however far away that page is, and
\* on total_pages only when no page after s carries a header; so a section
\* holds no header page but its first (stated for the runs in which every
\* renderer request returned its pages).
C19_EndsBeforeNextHeader ==
    (IsScan /\ faults = 0) =>
        \A k \in DOMAIN sections :
            LET q == FirstHeaderIn(sections[k].start_page + 1, total_pages)
            IN  /\ sections[k].end_page = IF q # 0 THEN q - 1 ELSE total_pages
                /\ \A p \in Pages(sections[k]) :
                       HasHeader(p) => p = sections[k].start_page

\* x limited to the interval lo..hi
Clamp(x, lo, hi) == IF x < lo THEN lo ELSE IF x > hi THEN hi ELSE x

\* C20: for a document of at least one page, entry i of the level-filtered
\* outline is planned with start_page = clamp(target_i + offset, 1, total_pages)
\* and end_page = clamp(target_(i+1) + offset - 1, start_page, total_pages),
\* the last entry with end_page = total_pages.
C20_PlannedByClamp ==
    (Planned /\ total_pages >= 1) =>
        /\ Len(toc_sections) = Len(FilterLevels(get_pdf_toc, args.toc_levels))
        /\ \A i \in DOMAIN toc_sections :
               LET entry == FilterLevels(get_pdf_toc, args.toc_levels)[i]
                   start == Clamp(entry.page + args.page_offset, 1, total_pages)
               IN  /\ toc_sections[i].start_page = start
                   /\ toc_sections[i].end_page =
                          IF i < Len(toc_sections)
                          THEN Clamp(FilterLevels(get_pdf_toc, args.toc_levels)[i + 1].page
                                         + args.page_offset - 1,
                                     start, total_pages)
                          ELSE total_pages

\* a plan of three entries under a positive offset, with a target above
\* total_pages, a start page that is not clamped and an entry whose successor
\* precedes its start page
C20_Witness ==
    /\ Planned /\ total_pages >= 2
    /\ Len(toc_sections) = 3
    /\ args.page_offset > 0
    /\ \E i \in DOMAIN toc_sections : Target(toc_sections[i]) > total_pages
    /\ \E i \in DOMAIN toc_sections :
           toc_sections[i].start_page = Target(toc_sections[i])
    /\ \E i \in 1 .. 2 : Target(toc_sections[i + 1]) - 1 < toc_sections[i].start_page

\* a level filter that lists at least one level was passed
Filtering == args.toc_levels.given /\ args.toc_levels.levels # {}

\* the positions in the outline of the entries whose level is listed
Retained == {k \in DOMAIN doc.toc : doc.toc[k].level \in args.toc_levels.levels}

\* the position in the outline of the i-th entry whose level is listed
RetainedAt(i) == CHOOSE k \in Retained : Cardinality({m \in Retained : m < k}) = i - 1

\* C21: with a level filter, the planned sections are exactly the outline
\* entries whose level is listed, in their order in the outline, and the
\* end_page of each comes from the next listed entry, so that its range takes
\* in the pages of the entries dropped between the two.
C21_FilterThenPlan ==
    (Planned /\ Filtering /\ total_pages >= 1) =>
        /\ Len(toc_sections) = Cardinality(Retained)
        /\ \A i \in DOMAIN toc_sections :
               LET kept == doc.toc[RetainedAt(i)]
               IN  /\ toc_sections[i].level = kept.level
                   /\ toc_sections[i].page = kept.page
                   /\ toc_sections[i].title = kept.title
                   /\ toc_sections[i].end_page =
                          IF i < Len(toc_sections)
                          THEN Clamp(doc.toc[RetainedAt(i + 1)].page + args.page_offset - 1,
                                     toc_sections[i].start_page, total_pages)
                          ELSE total_pages

\* a plan of the first and the third of three entries, the second being
\* dropped by the filter while its page lies inside the range of the first
C21_Witness ==
    /\ Planned /\ Filtering
    /\ Len(doc.toc) = 3
    /\ Retained = {1, 3}
    /\ Len(toc_sections) = 2
    /\ doc.toc[1].page < doc.toc[2].page
    /\ doc.toc[2].page < doc.toc[3].page
    /\ doc.toc[2].page + args.page_offset \in Pages(toc_sections[1])
    /\ toc_sections[1].end_page = doc.toc[3].page + args.page_offset - 1

\* the scan steps made so far: extract_next_section asks for the initial
\* window once in every call
Steps == Cardinality({k \in DOMAIN renders : renders[k].kind = "initial"})

\* the requests of the scan step that followed the n-th saved section
StepRequests(n) == {k \in DOMAIN renders : renders[k].saved = n}

\* C22: a scan step that returns a section returns a next start beyond its
\* start page and makes at most three renderer requests (stated of the step
\* in progress or just ended, in every state); the run makes at most
\* total_pages - start_page + 1 steps and ends, whatever the renderer does.
C22_ScanTerminates ==
    /\ [](/\ pc = "save" => /\ next_section_start > current_page
                            /\ next_section_start > section[1].end_page
          /\ Cardinality(StepRequests(Len(created_files))) <= 3
          /\ Steps > 0 => Steps <= total_pages - args.start_page + 1)
    /\ <>Done

\* a finished scan in which a request failed and which took as many steps as
\* there are pages from the start page on
C22_Witness ==
    /\ IsScan /\ Done
    /\ faults > 0
    /\ Steps >= 3
    /\ Steps = total_pages - args.start_page + 1

\* C23: a scan run in which every renderer request succeeded and which the
\* safety bound did not stop yields sections that start at start_page, follow
\* one another without gap or overlap, and end at total_pages.
C23_ScanCoversToTheEnd ==
    (/\ IsScan /\ Done
     /\ faults = 0
     /\ section_count <= SafetyBound
     /\ args.start_page <= total_pages) =>
        /\ sections # << >>
        /\ sections[1].start_page = args.start_page
        /\ \A k \in 1 .. Len(sections) - 1 :
               sections[k + 1].start_page = sections[k].end_page + 1
        /\ \A k \in DOMAIN sections : sections[k].start_page <= sections[k].end_page
        /\ sections[Len(sections)].end_page = total_pages
        /\ UNION {Pages(sections[k]) : k \in DOMAIN sections}
               = args.start_page .. total_pages

\* a run over a long document with several sections, all requests answered,
\* the last section found by an extension
C23_Witness ==
    /\ IsScan /\ Done
    /\ faults = 0
    /\ total_pages > LookAheadPages + ExtendPages
    /\ Len(sections) >= 2
    /\ sections[Len(sections)].end_page = total_pages
    /\ \E k \in DOMAIN renders : renders[k].kind = "extend"

\* the sections saved by the run that were written to the location loc
SavedAt(loc) == {k \in DOMAIN sections : sections[k].file_path = loc}

\* the locations of section artifacts
SectionFiles == {loc \in DOMAIN files : loc[1] = "section"}

\* C24: sections with the same id are written to the same location, where
\* the artifact is that of the last of them; the manifest lists each of them
\* with that location, so there may be fewer artifacts than sections_found.
C24_SameIdSameArtifact ==
    (Done /\ HasManifest) =>
        /\ result.value.sections_found = Len(sections)
        /\ \A k \in DOMAIN sections :
               /\ sections[k].file_path = SectionFile(sections[k].id)
               /\ (IF IsScan THEN result.value.files_created
                             ELSE result.value.created_files)[k] = sections[k].file_path
        /\ \A i, j \in DOMAIN sections :
               sections[i].id = sections[j].id => sections[i].file_path = sections[j].file_path
        /\ SectionFiles = {sections[k].file_path : k \in DOMAIN sections}
        /\ \A loc \in SectionFiles :
               LET last == CHOOSE k \in SavedAt(loc) : \A j \in SavedAt(loc) : j <= k
               IN  /\ files[loc].section_id = sections[last].id
                   /\ files[loc].start_page = sections[last].start_page
                   /\ files[loc].end_page = sections[last].end_page
        /\ Cardinality(SectionFiles) <= result.value.sections_found

\* two sections with different titles and the same id: one artifact, that of
\* the later section, and a manifest of two sections
C24_Witness ==
    /\ Done /\ HasManifest
    /\ result.value.sections_found = 2
    /\ sections[1].id = sections[2].id
    /\ sections[1].title # sections[2].title
    /\ sections[1].start_page < sections[2].start_page
    /\ Cardinality(SectionFiles) = 1
    /\ \A loc \in SectionFiles : files[loc].start_page = sections[2].start_page

\* the pages of a section after its first that carry a header
LaterHeaders(s) == {q \in (s.start_page + 1) .. s.end_page : q \in doc.markers}

\* C25: the section a scan step returns is named from its first page: the
\* title of that page's header and its slug when the page has one, else
\* "Content starting at Page <start>" and "untitled_page_<start>"; headers
\* on later pages of the section change neither, and the manifest record
\* carries the same title and id.
C25_NamedFromFirstPage ==
    /\ (IsScan /\ pc = "save") =>
           LET s == section[1]
               p == s.start_page
           IN  /\ p = current_page
               /\ p \in doc.markers =>
                      /\ s.section_title = doc.titles[p]
                      /\ s.section_id = Slug(doc.titles[p])
                      /\ s.header_found
               /\ p \notin doc.markers =>
                      /\ s.section_title = << "Content starting at Page " >> \o Digits(p)
                      /\ s.section_id = << "u", "n", "t", "i", "t", "l", "e", "d", "_",
                                           "p", "a", "g", "e", "_" >> \o Digits(p)
                      /\ ~s.header_found
    /\ IsScan =>
           \A k \in DOMAIN sections :
               LET p == sections[k].start_page
               IN  /\ p \in doc.markers =>
                          /\ sections[k].title = doc.titles[p]
                          /\ sections[k].id = Slug(doc.titles[p])
                   /\ p \notin doc.markers =>
                          /\ sections[k].title = << "Content starting at Page " >> \o Digits(p)
                          /\ sections[k].id = << "u", "n", "t", "i", "t", "l", "e", "d", "_",
                                                 "p", "a", "g", "e", "_" >> \o Digits(p)

\* a step returns a section that starts on a header page and holds a later
\* page with a header of another title and another slug
C25_Witness ==
    /\ IsScan /\ pc = "save"
    /\ section[1].start_page \in doc.markers
    /\ \E q \in LaterHeaders(section[1]) :
           /\ doc.titles[q] # doc.titles[section[1].start_page]
           /\ Slug(doc.titles[q]) # Slug(doc.titles[section[1].start_page])
    /\ section[1].section_title = doc.titles[section[1].start_page]

\* the record of a section that was named by the synthesized title
Untitled(r) == r.title = << "Content starting at Page " >> \o Digits(r.start_page)

\* C26: in a scan run every section after the first starts on a page with a
\* header and has that header's title; only the first can be untitled.
C26_OnlyFirstUntitled ==
    IsScan =>
        /\ \A k \in 2 .. Len(sections) :
               /\ sections[k].start_page \in doc.markers
               /\ sections[k].title = doc.titles[sections[k].start_page]
               /\ ~Untitled(sections[k])
        /\ (pc = "save" /\ sections # << >>) =>
               /\ section[1].header_found
               /\ section[1].section_title = doc.titles[section[1].start_page]

\* a finished run of three sections or more, the first of them untitled
C26_Witness ==
    /\ IsScan /\ Done
    /\ Len(sections) >= 3
    /\ Untitled(sections[1])
    /\ sections[1].start_page \notin doc.markers
    /\ \A k \in 2 .. Len(sections) : ~Untitled(sections[k])

\* the list of artifact locations in a manifest
ListedFiles(m) == IF "files_created" \in DOMAIN m THEN m.files_created ELSE m.created_files

\* C27 as claimed: the manifest returned by a completed run is the persisted
\* one, and its list of artifact locations has one entry per section record,
\* the i-th being the location of the i-th record.
C27_ReturnedIsPersisted ==
    (Done /\ HasManifest) =>
        /\ result.value = summary_file[1]
        /\ Len(ListedFiles(result.value)) = result.value.sections_found
        /\ Len(result.value.sections) = result.value.sections_found
        /\ \A i \in DOMAIN result.value.sections :
               ListedFiles(result.value)[i] = result.value.sections[i].file_path

\* the extension request of the scan step in progress was answered without pages
ExtensionFailed ==
    \E k \in StepRequests(Len(created_files)) :
        renders[k].kind = "extend" /\ renders[k].outcome # "ok"

\* C28: when the initial window was rendered and the extension request fails,
\* the step goes on to fetch the section [start, total_pages] with next start
\* total_pages + 1; the section it returns holds every remaining page, header
\* pages included, and is the last of the run.
C28_ExtensionFailureAbsorbs ==
    IsScan =>
        /\ (renders # << >> /\ renders[Len(renders)].kind = "extend"
                            /\ renders[Len(renders)].outcome # "ok") =>
               /\ pc = "fetch"
               /\ section_end_page = total_pages
               /\ next_section_start = total_pages + 1
        /\ (pc = "save" /\ ExtensionFailed) =>
               /\ Pages(section[1]) = current_page .. total_pages
               /\ next_section_start = total_pages + 1
               /\ \A q \in doc.markers : q > current_page => q \in Pages(section[1])
               /\ ScanContinue(section_count + 1, next_section_start) = "summary"

\* the extension request raised and the section returned holds a header page
C28_Witness ==
    /\ IsScan /\ pc = "save"
    /\ \E k \in StepRequests(Len(created_files)) :
           /\ renders[k].kind = "extend" /\ renders[k].outcome = "error"
           /\ \E j \in StepRequests(Len(created_files)) :
                  renders[j].kind = "initial" /\ renders[j].outcome = "ok" /\ j < k
    /\ LaterHeaders(section[1]) # {}
    /\ section[1].end_page = total_pages

\* the requests of a given kind among some requests, and the pages of a request
OfKind(reqs, kind) == {k \in reqs : renders[k].kind = kind}
Requested(k) == renders[k].first .. renders[k].last

\* C29: a scan step makes at most three requests, one for the initial
\* window, at most one for an extension window and at most one final fetch;
\* the two windows are disjoint, every page asked for lies between the start
\* page of the step and total_pages, and no page is asked for more than twice.
\* (Stated of the step in progress or just ended, in every state of a run.)
C29_ThreeRequestsPerStep ==
    IsScan =>
        LET reqs == StepRequests(Len(created_files))
        IN  /\ Cardinality(reqs) <= 3
            /\ \A k \in reqs : renders[k].kind \in {"initial", "extend", "final"}
            /\ reqs # {} => Cardinality(OfKind(reqs, "initial")) = 1
            /\ Cardinality(OfKind(reqs, "extend")) <= 1
            /\ Cardinality(OfKind(reqs, "final")) <= 1
            /\ \A i \in OfKind(reqs, "initial") :
                   /\ \A k \in reqs :
                          /\ i <= k
                          /\ Requested(k) # {}
                          /\ Requested(k) \subseteq renders[i].first .. total_pages
                   /\ \A e \in OfKind(reqs, "extend") :
                          Requested(i) \cap Requested(e) = {}
            /\ \A p \in UNION {Requested(k) : k \in reqs} :
                   Cardinality({k \in reqs : p \in Requested(k)}) <= 2

\* a step of three requests in which pages of both windows were asked for twice
C29_Witness ==
    /\ IsScan /\ pc = "save"
    /\ Cardinality(StepRequests(Len(created_files))) = 3
    /\ \E i \in OfKind(StepRequests(Len(created_files)), "initial"),
          e \in OfKind(StepRequests(Len(created_files)), "extend"),
          f \in OfKind(StepRequests(Len(created_files)), "final") :
            /\ Requested(i) \cap Requested(f) # {}
            /\ Requested(e) \cap Requested(f) # {}
            /\ renders[e].last < total_pages

\* a list of levels is given and no entry of the outline has one of them
NoMatch == Filtering /\ Retained = {}

\* C30: in an outline run on a document with an outline, a list of levels
\* that no entry has gives no error: nothing is requested from the renderer,
\* nothing is written, and the run ends with a manifest of zero sections; an
\* empty list of levels plans the sections that no list plans (the plan is
\* made once, so this is stated of the states before the first request).
C30_NoMatchIsNotNoToc ==
    (IsToc /\ doc.status = "ok" /\ doc.toc # << >>) =>
        /\ NoMatch =>
               /\ renders = << >>
               /\ writes = << >>
               /\ DOMAIN files = {}
               /\ result.kind \notin {"error", "raise"}
               /\ pc # "start" => toc_sections = << >>
               /\ Done =>
                      /\ HasManifest
                      /\ result.value = summary_file[1]
                      /\ result.value.success
                      /\ result.value.sections_found = 0
                      /\ result.value.sections = << >>
                      /\ result.value.created_files = << >>
        /\ (args.toc_levels.given /\ args.toc_levels.levels = {}
               /\ pc # "start" /\ renders = << >>) =>
               /\ toc_sections =
                      calculate_section_boundaries(get_pdf_toc, doc.pages, args.page_offset)
               /\ Len(toc_sections) = Len(doc.toc)

\* a finished run on an outline of two entries with a list of levels that
\* neither has
C30_Witness ==
    /\ IsToc /\ Done
    /\ Len(doc.toc) = 2
    /\ doc.pages >= 2
    /\ NoMatch
    /\ HasManifest
    /\ result.value.sections_found = 0
    /\ result.value.toc_entries_found = 0
    /\ renders = << >>

====
